---- MODULE Spec2Model ----
(***************************************************************************)
(* Workout module of the backend: the five request handlers of             *)
(* backend/app/ai_modules/workout_generator.py over the workout_routines   *)
(* and workout_logs tables of backend/app/models.py.                       *)
(*                                                                         *)
(* Text is modelled as a sequence of string pieces, so that concatenation  *)
(* (f-strings) is \o and two messages are equal iff their pieces are.      *)
(***************************************************************************)
EXTENDS Integers, Sequences, FiniteSets, TLC

VARIABLES routines, logs, now, inflight, resp

vars == <<routines, logs, now, inflight, resp>>

(* ------------------------------ bounds --------------------------------- *)

\* rows the workout_routines table may hold
MaxRoutines == 2
\* rows the workout_logs table may hold
MaxLogs == 1
\* last instant of the database clock (func.now())
MaxTime == 1

\* the ids a request or an LLM answer may name: those of the rows the table
\* may hold and one more
RoutineIds == 1 .. (MaxRoutines + 1)

\* the id and the created_at an LLM answer may carry as extra top-level keys
AnswerIds == {2}
AnswerTimes == {0}

\* ids of the authenticated users (get_current_user)
Users == {1, 2}
\* payloads an LLM answer may carry in its fields
Tags == {"A", "B"}

(* ------------------------------ tables --------------------------------- *)

Max(S) == CHOOSE x \in S : \A y \in S : y <= x

\* Column(Integer, primary_key=True): the id the database assigns to a new row
NextId(table) == IF table = {} THEN 1 ELSE Max({r.id : r \in table}) + 1

\* position of a new row in insertion order (not a column: used to say "newer")
NextSeq(table) == Cardinality(table) + 1

(* --------------------------- LLM answers ------------------------------- *)

\* the content columns of WorkoutRoutine
RoutineFields == {"name", "description", "exercises", "tips", "progression"}

\* the mapped attributes of WorkoutRoutine a keyword argument may set
RoutineColumns == RoutineFields \cup {"id", "user_id", "created_at"}

\* the value an answer with payload t carries under key k
Val(k, t) == <<k, t>>

\* JSON objects holding any subset of the required keys
PartialObjects == { [k \in ks |-> Val(k, "A")] : ks \in SUBSET RoutineFields }

\* a complete answer with payload t
FullObject(t) == [k \in RoutineFields |-> Val(k, t)]

\* f extended with key k bound to v
With(f, k, v) == [x \in (DOMAIN f) \cup {k} |-> IF x = k THEN v ELSE f[x]]

\* complete answers that also carry one more top-level key
ExtendedObjects ==
    { With(FullObject("A"), "id", i) : i \in AnswerIds }
    \cup { With(FullObject("A"), "created_at", c) : c \in AnswerTimes }
    \cup { With(FullObject("A"), "user_id", u) : u \in Users }
    \cup { With(FullObject("A"), "extra", Val("extra", "A")) }

\* message.content of the completion: None, text that is not JSON, or JSON
\* text standing for a number, an array of strings, or an object
Contents ==
    { [kind |-> "none"], [kind |-> "text"], [kind |-> "number"] }
    \cup { [kind |-> "array", items |-> s] : s \in { {}, RoutineFields } }
    \cup { [kind |-> "object", obj |-> o] : o \in PartialObjects \cup ExtendedObjects \cup {FullObject(t) : t \in Tags} }

\* outcome of `await client.chat.completions.create(...)`
Completions ==
    { [ok |-> TRUE, content |-> c] : c \in Contents }
    \cup { [ok |-> FALSE, msg |-> m] : m \in { <<"Connection error.">>, <<"Request timed out.">> } }

(* ----------------------------- exceptions ------------------------------ *)

NoExc == [type |-> "none"]

Raise(type, msg) == [type |-> type, msg |-> msg]

HTTPException(status_code, detail) ==
    [type |-> "HTTPException", status_code |-> status_code, detail |-> detail]

\* the ways the installed framework renders str(HTTPException): older
\* releases define no __str__ (empty text), newer ones "<status>: <detail>"
StrVariants == {"empty", "status_detail"}

\* str(e)
Str(e, sv) ==
    IF e.type = "HTTPException"
    THEN IF sv = "empty" THEN <<>> ELSE <<"500", ": ">> \o e.detail
    ELSE e.msg

(* ------------------------------ responses ----------------------------- *)

\* resp holds the response of the handler that just ran, until it is sent;
\* the event loop runs one handler step at a time and handlers start Idle
NoResp == [op |-> "none"]

Idle == resp = NoResp

(* ------------------------- generate_workout ---------------------------- *)

\* what the handler body hands back: the exception it raised (NoExc when it
\* returned), the table after it, the row it returned, the calls it made
Outcome(exc, table, row, trace) ==
    [exc |-> exc, table |-> table, row |-> row, trace |-> trace]

NoRow == [id |-> 0]

\* json.loads(content): "error" stands for json.JSONDecodeError, "type_error"
\* for the TypeError raised when content is None
json_loads(content) ==
    CASE content.kind = "text" -> "error"
      [] content.kind = "none" -> "type_error"
      [] OTHER                 -> "value"

\* `field in workout_data`: membership for an object (its keys) and an array
\* (its items), TypeError for a number
Contains(data, field) ==
    CASE data.kind = "object" -> IF field \in DOMAIN data.obj THEN "yes" ELSE "no"
      [] data.kind = "array"  -> IF field \in data.items THEN "yes" ELSE "no"
      [] OTHER                -> "error"

\* the list with its last field forgotten
required_fields_short == <<"name", "description", "exercises", "tips">>

\* the list in another order
required_fields_reordered == <<"description", "name", "exercises", "tips", "progression">>

required_fields == <<"name", "description", "exercises", "tips", "progression">>

\* for field in required_fields: if field not in workout_data: raise ValueError
RECURSIVE CheckFields(_, _)
CheckFields(data, i) ==
    IF i > Len(required_fields) THEN NoExc
    ELSE LET c == Contains(data, required_fields[i]) IN
         CASE c = "error" -> Raise("TypeError", <<"argument of type 'int' is not iterable">>)
           [] c = "no"    -> Raise("ValueError", <<"Missing required field: ", required_fields[i]>>)
           [] OTHER       -> CheckFields(data, i + 1)

\* the constructor called with one dict in which the answer's keys win:
\* WorkoutRoutine(**{"user_id": current_user.id, **workout_data})
ConstructAnswerWins(user, data) ==
    IF data.kind # "object"
    THEN [exc |-> Raise("TypeError", <<"argument after ** must be a mapping">>)]
    ELSE IF \E k \in DOMAIN data.obj : k \notin RoutineColumns
    THEN [exc |-> Raise("TypeError", <<"invalid keyword argument for WorkoutRoutine">>)]
    ELSE IF "user_id" \in DOMAIN data.obj
    THEN [exc |-> NoExc, attrs |-> data.obj]
    ELSE [exc |-> NoExc, attrs |-> With(data.obj, "user_id", user)]

\* WorkoutRoutine(user_id=current_user.id, **workout_data): the keyword
\* arguments the constructor receives, or the TypeError the call raises
Construct(user, data) ==
    IF data.kind # "object"
    THEN [exc |-> Raise("TypeError", <<"argument after ** must be a mapping">>)]
    ELSE IF "user_id" \in DOMAIN data.obj
    THEN [exc |-> Raise("TypeError", <<"got multiple values for keyword argument 'user_id'">>)]
    ELSE IF \E k \in DOMAIN data.obj : k \notin RoutineColumns
    THEN [exc |-> Raise("TypeError", <<"invalid keyword argument for WorkoutRoutine">>)]
    ELSE [exc |-> NoExc, attrs |-> With(data.obj, "user_id", user)]

\* the row an INSERT of these attributes writes: id and created_at are taken
\* from the attributes when set, else from the primary key and func.now()
RoutineRow(attrs, table, clock) ==
    [ id         |-> IF "id" \in DOMAIN attrs THEN attrs["id"] ELSE NextId(table),
      user_id    |-> attrs["user_id"],
      created_at |-> IF "created_at" \in DOMAIN attrs THEN attrs["created_at"] ELSE clock,
      seq        |-> NextSeq(table),
      data       |-> [k \in (DOMAIN attrs) \cap RoutineFields |-> attrs[k]] ]

\* db.add(row); db.commit(): the table afterwards
Insert(row, table) == table \cup {row}

\* db.merge(routine) in place of db.add(routine): a row with the same id is replaced
PersistMerge(attrs, table, clock, db) ==
    LET row == RoutineRow(attrs, table, clock) IN
    IF db = "commit_fails"
    THEN Outcome(Raise("OperationalError", <<"connection lost">>), table, NoRow, <<"write">>)
    ELSE IF db = "refresh_fails"
    THEN Outcome(Raise("OperationalError", <<"connection lost">>),
                 {r \in table : r.id # row.id} \cup {row}, NoRow, <<"write">>)
    ELSE Outcome(NoExc, {r \in table : r.id # row.id} \cup {row}, row, <<"write">>)

\* db.add(routine); db.commit(); db.refresh(routine); return routine
\* db: "ok", or which of commit and refresh the storage layer fails
Persist(attrs, table, clock, db) ==
    LET row == RoutineRow(attrs, table, clock) IN
    IF db = "commit_fails"
    THEN Outcome(Raise("OperationalError", <<"connection lost">>), table, NoRow, <<"write">>)
    ELSE IF \E r \in table : r.id = row.id
    THEN Outcome(Raise("IntegrityError", <<"UNIQUE constraint failed: workout_routines.id">>),
                 table, NoRow, <<"write">>)
    ELSE IF db = "refresh_fails"
    THEN Outcome(Raise("OperationalError", <<"connection lost">>),
                 Insert(row, table), NoRow, <<"write">>)
    ELSE Outcome(NoExc, Insert(row, table), row, <<"write">>)

\* the inner try block (lines 116-141)
InnerTry(user, content, table, clock, db) ==
    IF json_loads(content) = "error"
    THEN Outcome(HTTPException(500, <<"Error parsing AI response">>), table, NoRow, <<>>)
    ELSE IF json_loads(content) = "type_error"
    THEN Outcome(Raise("TypeError", <<"the JSON object must be str, bytes or bytearray, not NoneType">>),
                 table, NoRow, <<>>)
    ELSE LET chk == CheckFields(content, 1) IN
         IF chk # NoExc THEN Outcome(chk, table, NoRow, <<>>)
         ELSE LET c == Construct(user, content) IN
              IF c.exc # NoExc THEN Outcome(c.exc, table, NoRow, <<>>)
              ELSE Persist(c.attrs, table, clock, db)

\* an except block that asks the model again before it answers
OuterExceptRetry(out, sv) ==
    IF out.exc = NoExc THEN out
    ELSE [out EXCEPT !.exc = HTTPException(500, <<"Error generating workout: ">> \o Str(out.exc, sv)),
                     !.trace = @ \o <<"infer">>]

\* except Exception as e: raise HTTPException(500, f"Error generating workout: {str(e)}")
OuterExcept(out, sv) ==
    IF out.exc = NoExc THEN out
    ELSE [out EXCEPT !.exc = HTTPException(500, <<"Error generating workout: ">> \o Str(out.exc, sv))]

\* the outer try block (lines 91-148) from the point the completion arrives
AfterAwait(user, completion, table, clock, db, sv) ==
    IF ~completion.ok
    THEN OuterExcept(Outcome(Raise("APIError", completion.msg), table, NoRow, <<>>), sv)
    ELSE OuterExcept(InnerTry(user, completion.content, table, clock, db), sv)

DbOutcomes == {"ok", "commit_fails", "refresh_fails"}

\* the handler gets as far as db.commit()
ReachesCommit(user, completion) ==
    /\ completion.ok
    /\ json_loads(completion.content) = "value"
    /\ CheckFields(completion.content, 1) = NoExc
    /\ Construct(user, completion.content).exc = NoExc

\* what the storage layer may do in this invocation
DbChoices(user, completion) ==
    IF ReachesCommit(user, completion) THEN DbOutcomes ELSE {"ok"}

\* the renderings of str(HTTPException) this invocation may meet
StrChoices(completion) ==
    IF completion.ok /\ json_loads(completion.content) = "error"
    THEN StrVariants ELSE {"status_detail"}

\* what reaches the caller of POST /generate
GenerateResponse(user, completion, out, trace) ==
    IF out.exc = NoExc
    THEN [op |-> "generate", user |-> user, status |-> 200, routine |-> out.row,
          completion |-> completion, trace |-> trace]
    ELSE [op |-> "generate", user |-> user, status |-> out.exc.status_code,
          detail |-> out.exc.detail, completion |-> completion, trace |-> trace]

\* POST /generate up to its only suspension point: the request to the model
GenerateCall(user) ==
    /\ Idle
    /\ inflight[user] = <<>>
    /\ Cardinality(routines) + Cardinality({u \in Users : inflight[u] # <<>>}) < MaxRoutines
    /\ inflight' = [inflight EXCEPT ![user] = <<"infer">>]
    /\ UNCHANGED <<routines, logs, now, resp>>

\* POST /generate from the completion's arrival to the response
GenerateReturn(user) ==
    /\ Idle
    /\ inflight[user] # <<>>
    /\ \E completion \in Completions :
       \E db \in DbChoices(user, completion), sv \in StrChoices(completion) :
         LET out == AfterAwait(user, completion, routines, now, db, sv) IN
         /\ routines' = out.table
         /\ resp' = GenerateResponse(user, completion, out, inflight[user] \o out.trace)
    /\ inflight' = [inflight EXCEPT ![user] = <<>>]
    /\ UNCHANGED <<logs, now>>

(* ----------------------------- log_workout ----------------------------- *)

\* log_workout forgetting the owner in its filter
LogRoutineQueryAnyOwner(routine_id, user, table) ==
    {r \in table : r.id = routine_id}

\* db.query(WorkoutRoutine).filter(id == log.routine_id, user_id == current_user.id)
LogRoutineQuery(routine_id, user, table) ==
    {r \in table : r.id = routine_id /\ r.user_id = user}

NotFound == HTTPException(404, <<"Workout routine not found">>)

\* bodies of POST /log: WorkoutLogCreate
LogInputs ==
    { [routine_id |-> i, completed_exercises |-> <<>>, notes |-> "felt good", duration |-> 30]
      : i \in RoutineIds }

\* WorkoutLog(user_id=current_user.id, **log.dict()) as the INSERT writes it
LogRow(user, log, table, clock) ==
    [ id         |-> NextId(table),
      user_id    |-> user,
      routine_id |-> log.routine_id,
      created_at |-> clock,
      seq        |-> NextSeq(table),
      completed_exercises |-> log.completed_exercises,
      notes      |-> log.notes,
      duration   |-> log.duration ]

\* POST /log
LogWorkout(user, log) ==
    /\ Idle
    /\ LogRoutineQuery(log.routine_id, user, routines) # {} => Cardinality(logs) < MaxLogs
    /\ IF LogRoutineQuery(log.routine_id, user, routines) = {}
       THEN /\ resp' = [op |-> "log", user |-> user, routine_id |-> log.routine_id,
                        status |-> NotFound.status_code, detail |-> NotFound.detail]
            /\ UNCHANGED logs
       ELSE LET row == LogRow(user, log, logs, now) IN
            /\ logs' = logs \cup {row}
            /\ resp' = [op |-> "log", user |-> user, routine_id |-> log.routine_id,
                        status |-> 200, log |-> row]
    /\ UNCHANGED <<routines, now, inflight>>

(* ------------------------------- reads --------------------------------- *)

\* the orders in which .order_by(created_at.desc()).all() may return rows:
\* every arrangement whose created_at never increases (rows with equal
\* created_at come in an order the query does not fix)
OrderByCreatedDesc(rows) ==
    LET n == Cardinality(rows) IN
    { s \in [1 .. n -> rows] :
        /\ \A i, j \in 1 .. n : i # j => s[i] # s[j]
        /\ \A i, j \in 1 .. n : i < j => s[i].created_at >= s[j].created_at }

\* filter(WorkoutLog.user_id == current_user.id)
LogsOf(user, table) == {l \in table : l.user_id = user}

\* filter(WorkoutRoutine.user_id == current_user.id)
RoutinesOf(user, table) == {r \in table : r.user_id = user}

\* GET /history
GetHistory(user) ==
    /\ Idle
    /\ \E s \in OrderByCreatedDesc(LogsOf(user, logs)) :
         resp' = [op |-> "history", user |-> user, status |-> 200, list |-> s]
    /\ UNCHANGED <<routines, logs, now, inflight>>

\* GET /routines
GetRoutines(user) ==
    /\ Idle
    /\ \E s \in OrderByCreatedDesc(RoutinesOf(user, routines)) :
         resp' = [op |-> "routines", user |-> user, status |-> 200, list |-> s]
    /\ UNCHANGED <<routines, logs, now, inflight>>

\* get_workout_routine forgetting the owner in its filter
GetRoutineQueryAnyOwner(routine_id, user, table) ==
    {r \in table : r.id = routine_id}

\* db.query(WorkoutRoutine).filter(id == routine_id, user_id == current_user.id)
GetRoutineQuery(routine_id, user, table) ==
    {r \in table : r.id = routine_id /\ r.user_id = user}

\* GET /routines/{routine_id}
GetRoutine(user, routine_id) ==
    /\ Idle
    /\ LET found == GetRoutineQuery(routine_id, user, routines) IN
       IF found = {}
       THEN resp' = [op |-> "get", user |-> user, routine_id |-> routine_id,
                     status |-> NotFound.status_code, detail |-> NotFound.detail]
       ELSE resp' = [op |-> "get", user |-> user, routine_id |-> routine_id,
                     status |-> 200, routine |-> CHOOSE r \in found : TRUE]
    /\ UNCHANGED <<routines, logs, now, inflight>>

(* ------------------------------ the system ----------------------------- *)

\* the server sends the finished handler's response to its caller
Send ==
    /\ ~Idle
    /\ resp' = NoResp
    /\ UNCHANGED <<routines, logs, now, inflight>>

\* func.now() moves on between statements
Tick ==
    /\ Idle
    /\ now < MaxTime
    /\ now' = now + 1
    /\ UNCHANGED <<routines, logs, inflight, resp>>

Init ==
    /\ routines = {}
    /\ logs = {}
    /\ now = 0
    /\ inflight = [u \in Users |-> <<>>]
    /\ resp = NoResp

Next ==
    \/ \E u \in Users : GenerateCall(u)
    \/ \E u \in Users : GenerateReturn(u)
    \/ \E u \in Users, l \in LogInputs : LogWorkout(u, l)
    \/ \E u \in Users : GetHistory(u)
    \/ \E u \in Users : GetRoutines(u)
    \/ \E u \in Users, i \in RoutineIds : GetRoutine(u, i)
    \/ Tick
    \/ Send

Spec == Init /\ [][Next]_vars

(* =============================== claims ================================ *)

\* the five fields in the order the specification fixes
CanonicalOrder == <<"name", "description", "exercises", "tips", "progression">>

\* the response in flight answers POST /generate
Generated == resp.op = "generate"

\* ... whose completion arrived and carried a JSON object
GeneratedObject ==
    /\ Generated
    /\ resp.completion.ok
    /\ resp.completion.content.kind = "object"

\* the keys of that object
AnswerKeys == DOMAIN resp.completion.content.obj

\* this step is a POST /generate handler finishing
GenerateFinishes == resp.op = "none" /\ resp'.op = "generate"

(* C1: every stored WorkoutRoutine was written with all five of name,
   description, exercises, tips and progression: no routine is ever stored
   from an answer that lacks one of them. *)
C1_StoredRoutinesHaveAllFields ==
    \A r \in routines : RoutineFields \subseteq DOMAIN r.data

\* a routine is stored and an answer lacking "progression" alone was just refused
C1_Witness ==
    /\ routines # {}
    /\ GeneratedObject
    /\ AnswerKeys = RoutineFields \ {"progression"}
    /\ resp.status = 500

(* C2: every stored WorkoutLog names a stored WorkoutRoutine of the log's own
   user; a log request naming no routine of the caller (none with that id,
   or one of another user) gets the 404 "not found" response and adds no
   WorkoutLog. *)
C2_LogsReferenceOwnRoutine ==
    /\ [](/\ \A l \in logs : \E r \in routines : r.id = l.routine_id /\ r.user_id = l.user_id
          /\ resp.op = "log" =>
               ( resp.status = 404
                 <=> ~ \E r \in routines : r.id = resp.routine_id /\ r.user_id = resp.user ))
    /\ [][ (resp'.op = "log" /\ resp'.status = 404) => logs' = logs ]_vars

\* a log is stored, and a log request for another user's routine was just refused
C2_Witness ==
    /\ logs # {}
    /\ resp.op = "log"
    /\ resp.status = 404
    /\ \E r \in routines : r.id = resp.routine_id /\ r.user_id # resp.user

(* C3: whenever POST /generate fails, the caller gets a 500 response that
   carries a message and the stored routines are those stored before the
   handler ran. *)
C3_FailedGenerateStoresNothing ==
    [][ (GenerateFinishes /\ resp'.status # 200)
          => /\ resp'.status = 500
             /\ resp'.detail # <<>>
             /\ routines' = routines ]_vars

(* C4: an answer that is not valid JSON fails with the malformed-response
   outcome of its own (the 500 "Error parsing AI response" the handler raises
   for it), not replaced by another error, and stores nothing. *)
C4_MalformedAnswerKeepsItsError ==
    ( /\ Generated
      /\ resp.completion.ok
      /\ resp.completion.content.kind = "text" )
    => /\ resp.status = 500
       /\ resp.detail = <<"Error parsing AI response">>

(* C5: an answer that is a JSON object lacking at least one of the five keys
   fails with the message naming exactly one field: the first one lacking in
   the order name, description, exercises, tips, progression, whatever other
   keys are present or lacking. *)
C5_FirstMissingFieldNamed ==
    ( GeneratedObject /\ ~ (RoutineFields \subseteq AnswerKeys) )
    => \E i \in 1 .. Len(CanonicalOrder) :
         /\ CanonicalOrder[i] \notin AnswerKeys
         /\ \A j \in 1 .. (i - 1) : CanonicalOrder[j] \in AnswerKeys
         /\ resp.status = 500
         /\ resp.detail = <<"Error generating workout: ", "Missing required field: ", CanonicalOrder[i]>>

\* an answer lacking description and progression was refused naming description
C5_Witness ==
    /\ GeneratedObject
    /\ AnswerKeys = {"name", "exercises", "tips"}
    /\ resp.detail[3] = "description"

(* C6: an answer that is a JSON object with all five keys passes the field
   check (it never fails for a missing field), and a successful POST
   /generate stores exactly one new WorkoutRoutine, owned by the caller, whose
   five fields are the parsed values unchanged, and returns that row. *)
C6_ValidAnswerStoredVerbatim ==
    /\ []( /\ (GeneratedObject /\ RoutineFields \subseteq AnswerKeys /\ resp.status # 200)
              => resp.detail[2] # "Missing required field: "
           /\ (Generated /\ resp.status = 200)
              => /\ GeneratedObject
                 /\ resp.routine \in routines
                 /\ resp.routine.user_id = resp.user
                 /\ DOMAIN resp.routine.data = RoutineFields
                 /\ \A k \in RoutineFields :
                      resp.routine.data[k] = resp.completion.content.obj[k] )
    /\ [][ (GenerateFinishes /\ resp'.status = 200)
             => /\ resp'.routine \notin routines
                /\ routines' = routines \cup {resp'.routine} ]_vars

\* user 2's answer with payload B was stored next to an earlier routine
C6_Witness ==
    /\ Generated
    /\ resp.status = 200
    /\ resp.user = 2
    /\ resp.routine.data = FullObject("B")
    /\ Cardinality(routines) = 2

\* s lists exactly the rows of S, the one inserted later always first
NewestFirst(s, S) ==
    /\ {s[i] : i \in 1 .. Len(s)} = S
    /\ Len(s) = Cardinality(S)
    /\ \A i, j \in 1 .. Len(s) : i < j => s[i].seq > s[j].seq

(* C7: GET /routines returns exactly the caller's routines, none of another
   user, the later-generated always before the earlier; GET /history returns
   the caller's logs in the same newest-first order. *)
C7_ListsNewestFirst ==
    /\ resp.op = "routines" => NewestFirst(resp.list, {r \in routines : r.user_id = resp.user})
    /\ resp.op = "history" => NewestFirst(resp.list, {l \in logs : l.user_id = resp.user})

(* C8: GET /routines/{id} returns the routine exactly when a routine with
   that id exists and is the caller's; otherwise the response is the 404
   "Workout routine not found", the same whether no routine has the id or
   another user owns it. *)
C8_GetOnlyOwnRoutine ==
    resp.op = "get" =>
      LET own == {r \in routines : r.id = resp.routine_id /\ r.user_id = resp.user} IN
      IF own # {}
      THEN resp.status = 200 /\ resp.routine \in own
      ELSE resp = [op |-> "get", user |-> resp.user, routine_id |-> resp.routine_id,
                   status |-> 404, detail |-> <<"Workout routine not found">>]

\* a caller asked for a routine that exists and is another user's, and got the 404
C8_Witness ==
    /\ resp.op = "get"
    /\ resp.status = 404
    /\ \E r \in routines : r.id = resp.routine_id /\ r.user_id # resp.user

(* C9: an invocation of POST /generate sends exactly one request to the model
   and makes at most one storage write, the request before the write; a
   failing invocation does not ask the model again. *)
C9_OneInferenceThenAtMostOneWrite ==
    /\ \A u \in Users : inflight[u] \in { <<>>, <<"infer">> }
    /\ Generated => resp.trace \in { <<"infer">>, <<"infer", "write">> }

\* an invocation failed after its write was attempted
C9_Witness ==
    /\ Generated
    /\ resp.status = 500
    /\ resp.trace = <<"infer", "write">>

(* C10: no operation changes or removes a stored routine or log; a step adds
   at most one row in all. *)
C10_StoredRowsNeverChange ==
    [][ /\ routines \subseteq routines'
        /\ logs \subseteq logs'
        /\ Cardinality(routines') + Cardinality(logs')
             <= Cardinality(routines) + Cardinality(logs) + 1 ]_vars

\* with a routine and a log stored, an answer carrying the id of a stored
\* routine was refused
C10_Witness ==
    /\ logs # {}
    /\ GeneratedObject
    /\ "id" \in AnswerKeys
    /\ \E r \in routines : r.id = resp.completion.content.obj["id"]
    /\ resp.status = 500

====
